---- MODULE Spec2Model ----
(***************************************************************************)
(* Chunked speech-synthesis pipeline of clean_scrape_gcp                   *)
(* (src/modules/text_to_speech_service.py, src/modules/db_manager.py).     *)
(*                                                                         *)
(* Specifications:                                                         *)
(*   SpecChunk    TextToSpeech._chunk_text applied to bounded texts        *)
(*   Spec         concurrent jobs, each a TextToSpeech instance running    *)
(*                process_large_text against the shared temp bucket        *)
(*   SpecGateway  one call of convert_text_to_speech: the retry policy and *)
(*                the timeout race of _make_tts_request                    *)
(*   SpecEntry    calls of the entry point text_to_speech(article_id)      *)
(*   SpecLarge    one call of process_large_text, from the text on         *)
(*   SpecValidate one call of _validate_audio_segment                      *)
(*   SpecSweep    calls of _cleanup_old_temp_files on one bucket           *)
(*   SpecPersist  awaited calls of db_manager.create_audio_file            *)
(*   SpecContext  request handlers of main_app under job_context, served   *)
(*                by one event loop                                        *)
(*                                                                         *)
(* The temp bucket is taken to be reliable (an upload, a download or a     *)
(* delete that is issued succeeds); the remote synthesis service is not,   *)
(* and in SpecPersist neither the article-audio bucket nor Firestore is.   *)
(***************************************************************************)
EXTENDS Integers, Sequences, FiniteSets, TLC

VARIABLES
    \* ---- _chunk_text(text, max_bytes) ----
    text,        \* the input text, a sequence of characters
    max_bytes,   \* the byte bound handed to _chunk_text
    chunks,      \* the list _chunk_text returned
    cpc,         \* "call" before the call, "done" after it
    \* ---- process_large_text jobs sharing the temp bucket ----
    clock,          \* datetime.now(), in whole seconds
    blobs,          \* blobs of clean-scrape-temp-bucket under tmp_audio_files/
    pc,             \* where each job stands
    temp_prefix,    \* the prefix temporary_directory yielded to the job
    total_chunks,   \* len(chunks) of the job's text
    idx,            \* number of chunks the loop has gone through
    failed_chunks,  \* the job's failure counter
    chunk_files,    \* indices of the chunks recorded as stored, in order
    ci,             \* position of _combine_audio_files in file_paths
    outwave,        \* the wave writer of _combine_audio_files
    err,            \* the exception that ended the job, "" when none
    result,         \* what process_large_text returned
    \* ---- one call of convert_text_to_speech ----
    text_bytes,     \* len(text.encode('utf-8')) of the text given
    gpc,            \* where the calling thread stands
    attempts,       \* outcome of every finished attempt, in order
    worker,         \* the executor thread running client.synthesize_speech
    clients,        \* number of TextToSpeechClient objects created
    requests,       \* number of client.synthesize_speech calls submitted
    gresult,        \* what the call returned or raised
    \* ---- text_to_speech(article_id) ----
    articles,       \* the documents of the Firestore collection 'articles'
    audio_files,    \* ids of the articles with a blob audio_files/{id}.m4a
    epc,            \* "idle", "called" (line 553 evaluated), "done"
    article_id,     \* the argument of the call
    article,        \* the value bound to the local variable article
    env,            \* how the collaborators behave during this call
    convert_calls,  \* calls of convert_text_to_speech made by the call
    large_calls,    \* calls of process_large_text made by the call
    ret,            \* "True", "False", or "raised" when an exception escaped
    stages,         \* the stages the call went through, in order
    \* ---- _validate_audio_segment(segment) ----
    segment,        \* the AudioSegment given: what reading each property yields
    vpc,            \* "call" before the call, "done" after it
    valid,          \* "True", "False", or "raised" when an exception escaped
    \* ---- _cleanup_old_temp_files(max_age_hours) calls on one bucket ----
    bucket,         \* the blobs under tmp_audio_files/, each with its time_created
    now,            \* time.time(), in seconds
    spc,            \* where each call of _cleanup_old_temp_files stands
    listing,        \* what is left of the blobs list_blobs handed to the call
    current_time,   \* the time the call read at its start
    max_age_hours,  \* the retention window given to the call
    \* ---- awaited calls of db_manager.create_audio_file ----
    audio_store,    \* blob audio_files/{id}.m4a of each article: 0 when absent, else its content
    documents,      \* document articles/{id} of each article
    ppc,            \* where the call of create_audio_file stands
    persist_id,     \* the article_id given to the call
    m4a_audio,      \* the audio given to the call
    created,        \* what the call returned: "pending", "True" or "False"
    prior,          \* the blob and the document of the article when the call began
    \* ---- request handlers under job_context on one event-loop thread ----
    thread_job_id,  \* _thread_local.job_id of the event-loop thread; NoJob when the attribute is unset
    hpc,            \* where each request handler stands
    handler_job_id, \* the job id each handler gave to job_context
    previous_job_id,\* previous_job_id of each handler's job_context call
    awaits_left,    \* await points each handler still has inside its with block
    records         \* log records emitted inside with blocks: the emitting handler's job id and the job_id the filter stamped

chunkVars == <<text, max_bytes, chunks, cpc>>

jobVars == <<clock, blobs, pc, temp_prefix, total_chunks, idx, failed_chunks,
             chunk_files, ci, outwave, err, result>>

gwVars == <<text_bytes, gpc, attempts, worker, clients, requests, gresult>>

entryVars == <<articles, audio_files, epc, article_id, article, env,
               convert_calls, large_calls, ret, stages>>

valVars == <<segment, vpc, valid>>

sweepVars == <<bucket, now, spc, listing, current_time, max_age_hours>>

persistVars == <<audio_store, documents, ppc, persist_id, m4a_audio, created, prior>>

ctxVars == <<thread_job_id, hpc, handler_job_id, previous_job_id, awaits_left, records>>

vars == <<text, max_bytes, chunks, cpc, clock, blobs, pc, temp_prefix,
          total_chunks, idx, failed_chunks, chunk_files, ci, outwave, err,
          result, text_bytes, gpc, attempts, worker, clients, requests,
          gresult, articles, audio_files, epc, article_id, article, env,
          convert_calls, large_calls, ret, stages, segment, vpc, valid,
          bucket, now, spc, listing, current_time, max_age_hours,
          audio_store, documents, ppc, persist_id, m4a_audio, created, prior,
          thread_job_id, hpc, handler_job_id, previous_job_id, awaits_left, records>>

(***************************************************************************)
(* Bounds                                                                  *)
(***************************************************************************)
MaxLen == 6          \* longest text, in characters
MaxBytes == 4        \* largest max_bytes tried
MaxClock == 1        \* seconds the clock can advance
MaxChunks == 3       \* chunks per job when two jobs run side by side
LongChunks == 10     \* chunks of the one job of a long-text run
MaxJobLen == 3       \* longest text given to process_large_text
MaxJobBytes == 2     \* largest chunk_size given to process_large_text
MaxBlobs == 2        \* blobs under tmp_audio_files/ when the sweeps begin
MaxSweepHours == 2   \* hours the clock can advance during the sweeps
MaxAgeHours == 1     \* largest max_age_hours given to a sweep
MaxAudio == 2        \* distinct audio contents given to create_audio_file
MaxHandlers == 2     \* request handlers the event loop serves side by side
MaxAwaits == 2       \* await points of a handler inside its with block

(***************************************************************************)
(* Strings.  A text is a sequence of characters.  "E" stands for a         *)
(* character whose UTF-8 encoding takes two bytes; every other character   *)
(* of the alphabet takes one.                                              *)
(***************************************************************************)
Alphabet == {"a", "E", ".", " ", "\n"}

CharBytes(c) == IF c = "E" THEN 2 ELSE 1

RECURSIVE ByteLen(_)
\* len(s.encode('utf-8'))
ByteLen(s) == IF s = <<>> THEN 0 ELSE CharBytes(Head(s)) + ByteLen(Tail(s))

IsSpace(c) == c \in {" ", "\n"}

RECURSIVE LStrip(_)
LStrip(s) == IF s # <<>> /\ IsSpace(Head(s)) THEN LStrip(Tail(s)) ELSE s

RECURSIVE RStrip(_)
RStrip(s) ==
    IF s # <<>> /\ IsSpace(s[Len(s)]) THEN RStrip(SubSeq(s, 1, Len(s) - 1)) ELSE s

\* str.strip()
Strip(s) == RStrip(LStrip(s))

\* str.replace('\n', ' ')
ReplaceNewlines(s) == [i \in 1..Len(s) |-> IF s[i] = "\n" THEN " " ELSE s[i]]

\* index of the first occurrence of '. ' in s, 0 when there is none
FirstDotSpace(s) ==
    LET hits == {i \in 1..(Len(s) - 1) : s[i] = "." /\ s[i + 1] = " "}
    IN  IF hits = {} THEN 0 ELSE CHOOSE i \in hits : \A k \in hits : i <= k

RECURSIVE SplitDotSpace(_)
\* str.split('. ')
SplitDotSpace(s) ==
    LET i == FirstDotSpace(s)
    IN  IF i = 0 THEN <<s>>
        ELSE <<SubSeq(s, 1, i - 1)>> \o SplitDotSpace(SubSeq(s, i + 2, Len(s)))

\* length of the leading run of non-whitespace characters of s
RECURSIVE WordEnd(_)
WordEnd(s) == IF s = <<>> \/ IsSpace(Head(s)) THEN 0 ELSE 1 + WordEnd(Tail(s))

RECURSIVE SplitWords(_)
\* str.split(): the maximal runs of non-whitespace characters
SplitWords(s) ==
    LET t == LStrip(s)
    IN  IF t = <<>> THEN <<>>
        ELSE <<SubSeq(t, 1, WordEnd(t))>>
                 \o SplitWords(SubSeq(t, WordEnd(t) + 1, Len(t)))

(***************************************************************************)
(* TextToSpeech._chunk_text                                                *)
(***************************************************************************)
RECURSIVE WordLoop(_, _, _, _)
\* the loop over the words of one over-long sentence; yields the chunks
\* closed so far and the word buffer temp_chunk
WordLoop(words, out, temp_chunk, N) ==
    IF words = <<>> THEN <<out, temp_chunk>>
    ELSE LET word == Head(words)
         IN  IF ByteLen(temp_chunk \o <<" ">> \o word) > N
             THEN WordLoop(Tail(words),
                           IF temp_chunk # <<>> THEN Append(out, Strip(temp_chunk))
                                                ELSE out,
                           word, N)
             ELSE WordLoop(Tail(words), out,
                           IF temp_chunk # <<>> THEN temp_chunk \o <<" ">> \o word
                                                ELSE word,
                           N)

RECURSIVE SentenceLoop(_, _, _, _, _)
\* the loop over the sentences; last is sentences[-1], compared by value
SentenceLoop(sentences, last, out, current_chunk, N) ==
    IF sentences = <<>>
    THEN IF current_chunk # <<>> THEN Append(out, Strip(current_chunk)) ELSE out
    ELSE LET sentence == IF Head(sentences) # last
                         THEN Head(sentences) \o <<".", " ">>
                         ELSE Head(sentences)
             potential_chunk == current_chunk \o sentence
         IN  IF ByteLen(potential_chunk) > N
             THEN IF current_chunk = <<>>
                  THEN LET r == WordLoop(SplitWords(sentence), out, <<>>, N)
                       IN  SentenceLoop(Tail(sentences), last, r[1], r[2], N)
                  ELSE SentenceLoop(Tail(sentences), last,
                                    Append(out, Strip(current_chunk)), sentence, N)
             ELSE SentenceLoop(Tail(sentences), last, out, potential_chunk, N)

\* the function without the test for empty or whitespace-only text
chunk_text_NoBlankTest(t, N) ==
    LET sentences == SplitDotSpace(ReplaceNewlines(t))
    IN  SentenceLoop(sentences, sentences[Len(sentences)], <<>>, <<>>, N)

chunk_text(t, N) ==
    IF t = <<>> \/ Strip(t) = <<>> THEN <<>>
    ELSE LET sentences == SplitDotSpace(ReplaceNewlines(t))
         IN  SentenceLoop(sentences, sentences[Len(sentences)], <<>>, <<>>, N)

(***************************************************************************)
(* Jobs: process_large_text on one TextToSpeech instance each              *)
(***************************************************************************)
Jobs == {1, 2}

None == "None"

\* ERROR_THRESHOLD = 0.2, in tenths
ErrorThresholdTenths == 2

\* failed_chunks / total_chunks > self.ERROR_THRESHOLD.  For the small
\* integers involved the float comparison agrees with the exact one: the
\* quotient of f/t = 1/5 rounds to the same double as the literal 0.2.
\* the comparison with the quotient taken as an integer division
ExceedsThreshold_FloorDiv(f, t) == (f \div t) * 10 > ErrorThresholdTenths

\* the comparison with >= in place of >
ExceedsThreshold_AtLeast(f, t) == f * 10 >= ErrorThresholdTenths * t

ExceedsThreshold(f, t) == f * 10 > ErrorThresholdTenths * t

\* what convert_text_to_speech can hand to _process_chunk: audio that passed
\* _validate_audio_segment, None, or an exception
ConvertResults == {"audio", None, "raise"}

\* _process_chunk returns True exactly when convert_text_to_speech returned
\* audio: the second validation sees the bytes the first one accepted and
\* the upload succeeds
process_chunk(r) == r = "audio"

\* f"temp_{datetime.now().strftime('%Y%m%d_%H%M%S')}" at second t
TempPrefix(t) == <<"temp", t>>

\* no prefix yet
NoPrefix == <<>>

\* blob.upload_from_file to tmp_audio_files/temp_<p>/chunk_<i>.wav by job j
Upload(store, p, i, j) ==
    {b \in store : ~(b.prefix = p /\ b.idx = i)}
        \cup {[prefix |-> p, idx |-> i, by |-> j]}

\* bucket.list_blobs(prefix = tmp_audio_files/temp_<p>)
UnderPrefix(store, p) == {b \in store : b.prefix = p}

\* delete every blob listed under the prefix
DeletePrefix(store, p) == store \ UnderPrefix(store, p)

\* the blob at tmp_audio_files/temp_<p>/chunk_<i>.wav, as a set
BlobAt(store, p, i) == {b \in store : b.prefix = p /\ b.idx = i}

\* no request handler under way
ContextIdle ==
    /\ thread_job_id = 0
    /\ hpc = <<>>
    /\ handler_job_id = <<>>
    /\ previous_job_id = <<>>
    /\ awaits_left = <<>>
    /\ records = {}

\* no call of create_audio_file under way
PersistIdle ==
    /\ audio_store = <<>>
    /\ documents = <<>>
    /\ ppc = "idle"
    /\ persist_id = 0
    /\ m4a_audio = 0
    /\ created = "pending"
    /\ prior = <<>>

\* no call of _cleanup_old_temp_files under way
SweepIdle ==
    /\ bucket = {}
    /\ now = 0
    /\ spc = <<>>
    /\ listing = <<>>
    /\ current_time = <<>>
    /\ max_age_hours = <<>>

\* no call of _validate_audio_segment under way
ValidatorIdle ==
    /\ segment = [duration_ms |-> <<>>, frame_rate |-> <<>>, channels |-> <<>>,
                  max_dBFS |-> <<>>]
    /\ vpc = "idle"
    /\ valid = "pending"

\* no call of convert_text_to_speech under way
GatewayIdle ==
    /\ text_bytes = 0
    /\ gpc = "idle"
    /\ attempts = <<>>
    /\ worker = [state |-> "none", does |-> "ok"]
    /\ clients = 0
    /\ requests = 0
    /\ gresult = <<>>

\* no article, no call of text_to_speech
EntryIdle ==
    /\ articles = <<>>
    /\ audio_files = {}
    /\ epc = "idle"
    /\ article_id = 0
    /\ article = [kind |-> "unbound"]
    /\ env = [synth |-> "audio", transcode |-> "ok", persist |-> "ok"]
    /\ convert_calls = 0
    /\ large_calls = 0
    /\ ret = "pending"
    /\ stages = <<>>

\* no job started
JobsIdle ==
    /\ clock = 0
    /\ blobs = {}
    /\ pc = [j \in Jobs |-> "idle"]
    /\ temp_prefix = [j \in Jobs |-> NoPrefix]
    /\ idx = [j \in Jobs |-> 0]
    /\ failed_chunks = [j \in Jobs |-> 0]
    /\ chunk_files = [j \in Jobs |-> <<>>]
    /\ ci = [j \in Jobs |-> 0]
    /\ outwave = [j \in Jobs |-> [params |-> <<>>, frames |-> <<>>, failed |-> FALSE]]
    /\ err = [j \in Jobs |-> ""]
    /\ result = [j \in Jobs |-> "pending"]
    /\ total_chunks = [j \in Jobs |-> 0]

\* the texts of the jobs: two short texts, or one long text next to an
\* empty one
JobTexts ==
    [Jobs -> 0..MaxChunks]
        \cup {[j \in Jobs |-> IF j = 1 THEN n ELSE 0] : n \in 0..LongChunks}

Init ==
    /\ text = <<>>
    /\ max_bytes = 1
    /\ chunks = <<>>
    /\ cpc = "done"
    /\ clock = 0
    /\ blobs = {}
    /\ pc = [j \in Jobs |-> "idle"]
    /\ temp_prefix = [j \in Jobs |-> NoPrefix]
    /\ total_chunks \in JobTexts
    /\ idx = [j \in Jobs |-> 0]
    /\ failed_chunks = [j \in Jobs |-> 0]
    /\ chunk_files = [j \in Jobs |-> <<>>]
    /\ ci = [j \in Jobs |-> 0]
    /\ outwave = [j \in Jobs |-> [params |-> <<>>, frames |-> <<>>, failed |-> FALSE]]
    /\ err = [j \in Jobs |-> ""]
    /\ result = [j \in Jobs |-> "pending"]
    /\ GatewayIdle
    /\ EntryIdle
    /\ ValidatorIdle
    /\ SweepIdle
    /\ PersistIdle
    /\ ContextIdle

\* one second passes
Tick ==
    /\ clock < MaxClock
    /\ clock' = clock + 1
    /\ UNCHANGED <<blobs, pc, temp_prefix, total_chunks, idx, failed_chunks,
                   chunk_files, ci, outwave, err, result>>
    /\ UNCHANGED chunkVars
    /\ UNCHANGED gwVars
    /\ UNCHANGED entryVars
    /\ UNCHANGED valVars
    /\ UNCHANGED sweepVars
    /\ UNCHANGED persistVars
    /\ UNCHANGED ctxVars

\* TextToSpeech() is constructed and process_large_text is called: it enters
\* temporary_directory, whose prefix is the current time to the second, and
\* chunks the text
Start(j) ==
    /\ pc[j] = "idle"
    /\ temp_prefix' = [temp_prefix EXCEPT ![j] = TempPrefix(clock)]
    /\ pc' = [pc EXCEPT ![j] = "loop"]
    /\ UNCHANGED <<clock, blobs, total_chunks, idx, failed_chunks, chunk_files,
                   ci, outwave, err, result>>
    /\ UNCHANGED chunkVars
    /\ UNCHANGED gwVars
    /\ UNCHANGED entryVars
    /\ UNCHANGED valVars
    /\ UNCHANGED sweepVars
    /\ UNCHANGED persistVars
    /\ UNCHANGED ctxVars

\* an iteration that leaves a failed chunk to be attempted again
ProcessChunk_RetryFailed(j) ==
    /\ pc[j] = "loop"
    /\ idx[j] < total_chunks[j]
    /\ \E r \in ConvertResults :
        LET i == idx[j] + 1
        IN  IF process_chunk(r)
            THEN /\ idx' = [idx EXCEPT ![j] = i]
                 /\ blobs' = Upload(blobs, temp_prefix[j], i, j)
                 /\ chunk_files' = [chunk_files EXCEPT ![j] = Append(@, i)]
                 /\ UNCHANGED <<failed_chunks, err, pc>>
            ELSE /\ failed_chunks' = [failed_chunks EXCEPT ![j] = @ + 1]
                 /\ IF ExceedsThreshold(failed_chunks[j] + 1, total_chunks[j])
                    THEN /\ err' = [err EXCEPT ![j] = "threshold"]
                         /\ pc' = [pc EXCEPT ![j] = "exit"]
                    ELSE UNCHANGED <<err, pc>>
                 /\ UNCHANGED <<idx, blobs, chunk_files>>
    /\ UNCHANGED <<clock, temp_prefix, total_chunks, ci, outwave, result>>
    /\ UNCHANGED chunkVars
    /\ UNCHANGED gwVars
    /\ UNCHANGED entryVars
    /\ UNCHANGED valVars
    /\ UNCHANGED sweepVars
    /\ UNCHANGED persistVars
    /\ UNCHANGED ctxVars

\* an iteration that divides the failures by the chunks gone through so far
ProcessChunk_SeenSoFar(j) ==
    /\ pc[j] = "loop"
    /\ idx[j] < total_chunks[j]
    /\ \E r \in ConvertResults :
        LET i == idx[j] + 1
        IN  /\ idx' = [idx EXCEPT ![j] = i]
            /\ IF process_chunk(r)
               THEN /\ blobs' = Upload(blobs, temp_prefix[j], i, j)
                    /\ chunk_files' = [chunk_files EXCEPT ![j] = Append(@, i)]
                    /\ UNCHANGED <<failed_chunks, err, pc>>
               ELSE /\ failed_chunks' = [failed_chunks EXCEPT ![j] = @ + 1]
                    /\ IF ExceedsThreshold(failed_chunks[j] + 1, i)
                       THEN /\ err' = [err EXCEPT ![j] = "threshold"]
                            /\ pc' = [pc EXCEPT ![j] = "exit"]
                       ELSE UNCHANGED <<err, pc>>
                    /\ UNCHANGED <<blobs, chunk_files>>
    /\ UNCHANGED <<clock, temp_prefix, total_chunks, ci, outwave, result>>
    /\ UNCHANGED chunkVars
    /\ UNCHANGED gwVars
    /\ UNCHANGED entryVars
    /\ UNCHANGED valVars
    /\ UNCHANGED sweepVars
    /\ UNCHANGED persistVars
    /\ UNCHANGED ctxVars

\* one iteration of the loop over the chunks
ProcessChunk(j) ==
    /\ pc[j] = "loop"
    /\ idx[j] < total_chunks[j]
    /\ \E r \in ConvertResults :
        LET i == idx[j] + 1
        IN  /\ idx' = [idx EXCEPT ![j] = i]
            /\ IF process_chunk(r)
               THEN /\ blobs' = Upload(blobs, temp_prefix[j], i, j)
                    /\ chunk_files' = [chunk_files EXCEPT ![j] = Append(@, i)]
                    /\ UNCHANGED <<failed_chunks, err, pc>>
               ELSE /\ failed_chunks' = [failed_chunks EXCEPT ![j] = @ + 1]
                    /\ IF ExceedsThreshold(failed_chunks[j] + 1, total_chunks[j])
                       THEN /\ err' = [err EXCEPT ![j] = "threshold"]
                            /\ pc' = [pc EXCEPT ![j] = "exit"]
                       ELSE UNCHANGED <<err, pc>>
                    /\ UNCHANGED <<blobs, chunk_files>>
    /\ UNCHANGED <<clock, temp_prefix, total_chunks, ci, outwave, result>>
    /\ UNCHANGED chunkVars
    /\ UNCHANGED gwVars
    /\ UNCHANGED entryVars
    /\ UNCHANGED valVars
    /\ UNCHANGED sweepVars
    /\ UNCHANGED persistVars
    /\ UNCHANGED ctxVars

\* the loop is over: no stored chunk is an error, otherwise the chunks are
\* combined
LoopEnd(j) ==
    /\ pc[j] = "loop"
    /\ idx[j] = total_chunks[j]
    /\ IF chunk_files[j] = <<>>
       THEN /\ err' = [err EXCEPT ![j] = "novalid"]
            /\ pc' = [pc EXCEPT ![j] = "exit"]
       ELSE /\ pc' = [pc EXCEPT ![j] = "combine"]
            /\ UNCHANGED err
    /\ UNCHANGED <<clock, blobs, temp_prefix, total_chunks, idx, failed_chunks,
                   chunk_files, ci, outwave, result>>
    /\ UNCHANGED chunkVars
    /\ UNCHANGED gwVars
    /\ UNCHANGED entryVars
    /\ UNCHANGED valVars
    /\ UNCHANGED sweepVars
    /\ UNCHANGED persistVars
    /\ UNCHANGED ctxVars

\* a combine step that puts the frames of a file in front of those written
\* before
CombineStep_Prepend(j) ==
    /\ pc[j] = "combine"
    /\ ~outwave[j].failed
    /\ ci[j] < Len(chunk_files[j])
    /\ LET i == ci[j]
           f == chunk_files[j][i + 1]
           found == BlobAt(blobs, temp_prefix[j], f)
       IN  /\ ci' = [ci EXCEPT ![j] = i + 1]
           /\ IF found = {}
              THEN UNCHANGED outwave
              ELSE LET b == CHOOSE x \in found : TRUE
                       audio == <<b.by, b.idx>>
                       params == IF i = 0 THEN audio ELSE outwave[j].params
                   IN  IF params = <<>>
                       THEN outwave' = [outwave EXCEPT ![j].failed = TRUE]
                       ELSE outwave' = [outwave EXCEPT
                                ![j].params = params,
                                ![j].frames = <<audio>> \o @]
    /\ UNCHANGED <<clock, blobs, pc, temp_prefix, total_chunks, idx,
                   failed_chunks, chunk_files, err, result>>
    /\ UNCHANGED chunkVars
    /\ UNCHANGED gwVars
    /\ UNCHANGED entryVars
    /\ UNCHANGED valVars
    /\ UNCHANGED sweepVars
    /\ UNCHANGED persistVars
    /\ UNCHANGED ctxVars

\* _combine_audio_files, one file of file_paths: a missing blob is skipped;
\* the first listed file (i == 0) sets the parameters of the output; frames
\* written to an output without parameters raise wave.Error
CombineStep(j) ==
    /\ pc[j] = "combine"
    /\ ~outwave[j].failed
    /\ ci[j] < Len(chunk_files[j])
    /\ LET i == ci[j]
           f == chunk_files[j][i + 1]
           found == BlobAt(blobs, temp_prefix[j], f)
       IN  /\ ci' = [ci EXCEPT ![j] = i + 1]
           /\ IF found = {}
              THEN UNCHANGED outwave
              ELSE LET b == CHOOSE x \in found : TRUE
                       audio == <<b.by, b.idx>>
                       params == IF i = 0 THEN audio ELSE outwave[j].params
                   IN  IF params = <<>>  \* writeframes before setnchannels
                       THEN outwave' = [outwave EXCEPT ![j].failed = TRUE]
                       ELSE outwave' = [outwave EXCEPT
                                ![j].params = params,
                                ![j].frames = Append(@, audio)]
    /\ UNCHANGED <<clock, blobs, pc, temp_prefix, total_chunks, idx,
                   failed_chunks, chunk_files, err, result>>
    /\ UNCHANGED chunkVars
    /\ UNCHANGED gwVars
    /\ UNCHANGED entryVars
    /\ UNCHANGED valVars
    /\ UNCHANGED sweepVars
    /\ UNCHANGED persistVars
    /\ UNCHANGED ctxVars

\* _combine_audio_files cannot create its storage client (lines 333-334,
\* outside its try block): the exception goes through process_large_text's
\* with block to its except clause
CombineClientFails(j) ==
    /\ pc[j] = "combine"
    /\ ci[j] = 0
    /\ ~outwave[j].failed
    /\ err' = [err EXCEPT ![j] = "unexpected"]
    /\ pc' = [pc EXCEPT ![j] = "exit"]
    /\ UNCHANGED <<clock, blobs, temp_prefix, total_chunks, idx, failed_chunks,
                   chunk_files, ci, outwave, result>>
    /\ UNCHANGED chunkVars
    /\ UNCHANGED gwVars
    /\ UNCHANGED entryVars
    /\ UNCHANGED valVars
    /\ UNCHANGED sweepVars
    /\ UNCHANGED persistVars
    /\ UNCHANGED ctxVars

\* _combine_audio_files ends: closing an output without parameters raises
\* wave.Error, any error makes it return None; its finally clause deletes
\* every blob under the directory of file_paths[0]; process_large_text turns
\* None into an exception
CombineFinish(j) ==
    /\ pc[j] = "combine"
    /\ outwave[j].failed \/ ci[j] = Len(chunk_files[j])
    /\ LET final_audio == IF outwave[j].failed \/ outwave[j].params = <<>>
                          THEN None ELSE outwave[j].frames
       IN  /\ err' = [err EXCEPT ![j] = IF final_audio = None THEN "combine" ELSE ""]
           /\ result' = [result EXCEPT ![j] = final_audio]
    /\ blobs' = DeletePrefix(blobs, temp_prefix[j])
    /\ pc' = [pc EXCEPT ![j] = "exit"]
    /\ UNCHANGED <<clock, temp_prefix, total_chunks, idx, failed_chunks,
                   chunk_files, ci, outwave>>
    /\ UNCHANGED chunkVars
    /\ UNCHANGED gwVars
    /\ UNCHANGED entryVars
    /\ UNCHANGED valVars
    /\ UNCHANGED sweepVars
    /\ UNCHANGED persistVars
    /\ UNCHANGED ctxVars

\* a context manager that cleans up after the yield without try/finally:
\* an exception raised in the with block skips the deletion
ExitCleanup_NoFinally(j) ==
    /\ pc[j] = "exit"
    /\ blobs' = IF err[j] = "" THEN DeletePrefix(blobs, temp_prefix[j]) ELSE blobs
    /\ result' = [result EXCEPT ![j] = IF err[j] # "" THEN None ELSE @]
    /\ pc' = [pc EXCEPT ![j] = "returned"]
    /\ UNCHANGED <<clock, temp_prefix, total_chunks, idx, failed_chunks,
                   chunk_files, ci, outwave, err>>
    /\ UNCHANGED chunkVars
    /\ UNCHANGED gwVars
    /\ UNCHANGED entryVars
    /\ UNCHANGED valVars
    /\ UNCHANGED sweepVars
    /\ UNCHANGED persistVars
    /\ UNCHANGED ctxVars

\* the with block is left: temporary_directory's finally clause runs
\* _cleanup_temp_files(prefix); an exception is caught by process_large_text,
\* which then returns None
ExitCleanup(j) ==
    /\ pc[j] = "exit"
    /\ blobs' = DeletePrefix(blobs, temp_prefix[j])
    /\ result' = [result EXCEPT ![j] = IF err[j] # "" THEN None ELSE @]
    /\ pc' = [pc EXCEPT ![j] = "returned"]
    /\ UNCHANGED <<clock, temp_prefix, total_chunks, idx, failed_chunks,
                   chunk_files, ci, outwave, err>>
    /\ UNCHANGED chunkVars
    /\ UNCHANGED gwVars
    /\ UNCHANGED entryVars
    /\ UNCHANGED valVars
    /\ UNCHANGED sweepVars
    /\ UNCHANGED persistVars
    /\ UNCHANGED ctxVars

\* the instance is dropped: __del__ calls cleanup(), which deletes every
\* blob under tmp_audio_files/
Teardown(j) ==
    /\ pc[j] = "returned"
    /\ blobs' = {}
    /\ pc' = [pc EXCEPT ![j] = "deleted"]
    /\ UNCHANGED <<clock, temp_prefix, total_chunks, idx, failed_chunks,
                   chunk_files, ci, outwave, err, result>>
    /\ UNCHANGED chunkVars
    /\ UNCHANGED gwVars
    /\ UNCHANGED entryVars
    /\ UNCHANGED valVars
    /\ UNCHANGED sweepVars
    /\ UNCHANGED persistVars
    /\ UNCHANGED ctxVars

JobStep(j) ==
    \/ Start(j)
    \/ ProcessChunk(j)
    \/ LoopEnd(j)
    \/ CombineStep(j)
    \/ CombineClientFails(j)
    \/ CombineFinish(j)
    \/ ExitCleanup(j)
    \/ Teardown(j)

Next ==
    \/ Tick
    \/ \E j \in Jobs : Start(j)
    \/ \E j \in Jobs : ProcessChunk(j)
    \/ \E j \in Jobs : LoopEnd(j)
    \/ \E j \in Jobs : CombineStep(j)
    \/ \E j \in Jobs : CombineClientFails(j)
    \/ \E j \in Jobs : CombineFinish(j)
    \/ \E j \in Jobs : ExitCleanup(j)
    \/ \E j \in Jobs : Teardown(j)

Spec == Init /\ [][Next]_vars

\* the job is inside the with block of temporary_directory
Running(j) == pc[j] \in {"loop", "combine", "exit"}

(***************************************************************************)
(* convert_text_to_speech and _make_tts_request                            *)
(***************************************************************************)
\* the size limit of convert_text_to_speech
MaxRequestBytes == 5000

\* stop_after_attempt(3)
StopAfterAttempt == 3

\* a retry list that also names ValueError
Transient_WithValueError ==
    {"DeadlineExceeded", "ServiceUnavailable", "InternalServerError",
     "ConnectionError", "TimeoutError", "ValueError"}

\* retry_if_exception_type(...): DeadlineExceeded, ServiceUnavailable,
\* InternalServerError, ConnectionError, socket.timeout / TimeoutError
Transient == {"DeadlineExceeded", "ServiceUnavailable", "InternalServerError",
              "ConnectionError", "TimeoutError"}

\* what client.synthesize_speech can do on the worker thread: return valid
\* audio, return empty audio, return audio the validator rejects, raise a
\* transient error, raise a bad-request error, or never return
WorkerBehaviours == {"ok", "empty", "invalid", "InvalidArgument", "hang"} \cup Transient

\* a retry decision that does not look at the type of the exception
ShouldRetry_AnyError(kind, n) == n < StopAfterAttempt

\* a retry decision that stops one attempt too late
ShouldRetry_OneMore(kind, n) == kind \in Transient /\ n < StopAfterAttempt + 1

\* tenacity: retry when the exception is of a listed type and the stop
\* condition has not been reached
ShouldRetry(kind, n) == kind \in Transient /\ n < StopAfterAttempt

InitGateway ==
    /\ text = <<>>
    /\ max_bytes = 1
    /\ chunks = <<>>
    /\ cpc = "done"
    /\ JobsIdle
    /\ text_bytes \in {MaxRequestBytes - 1, MaxRequestBytes, MaxRequestBytes + 1}
    /\ gpc = "idle"
    /\ attempts = <<>>
    /\ worker = [state |-> "none", does |-> "ok"]
    /\ clients = 0
    /\ requests = 0
    /\ gresult = <<>>
    /\ EntryIdle
    /\ ValidatorIdle
    /\ SweepIdle
    /\ PersistIdle
    /\ ContextIdle

\* an attempt ended by raising an exception of the given kind: tenacity
\* either schedules the next attempt or, with reraise=True, raises that
\* exception itself
AttemptRaises(kind) ==
    LET n == Len(attempts) + 1
    IN  /\ attempts' = Append(attempts, kind)
        /\ IF ShouldRetry(kind, n)
           THEN /\ gpc' = "backoff"
                /\ UNCHANGED gresult
           ELSE /\ gpc' = "raised"
                /\ gresult' = <<kind, n>>

\* an attempt ended by returning a value
AttemptReturns(outcome, value) ==
    /\ attempts' = Append(attempts, outcome)
    /\ gpc' = "returned"
    /\ gresult' = value

\* an attempt starts (the first one, or the next one after the back-off):
\* the size check, then the client, then the request is submitted to the
\* executor and the caller waits in future.result(timeout)
AttemptBegin ==
    /\ gpc \in {"idle", "backoff"}
    /\ IF text_bytes > MaxRequestBytes
       THEN /\ AttemptRaises("ValueError")
            /\ UNCHANGED <<worker, clients, requests>>
       ELSE /\ clients' = clients + 1
            /\ requests' = requests + 1
            /\ \E b \in WorkerBehaviours :
                   worker' = [state |-> "running", does |-> b]
            /\ gpc' = "waiting"
            /\ UNCHANGED <<attempts, gresult>>
    /\ UNCHANGED text_bytes
    /\ UNCHANGED <<chunkVars, jobVars, entryVars, valVars, sweepVars, persistVars, ctxVars>>

\* client.synthesize_speech comes back on the worker thread
WorkerFinish ==
    /\ worker.state = "running"
    /\ worker.does # "hang"
    /\ worker' = [worker EXCEPT !.state = "done"]
    /\ UNCHANGED <<text_bytes, gpc, attempts, clients, requests, gresult>>
    /\ UNCHANGED <<chunkVars, jobVars, entryVars, valVars, sweepVars, persistVars, ctxVars>>

\* future.result() hands the caller the outcome of the finished worker; the
\* executor has nothing left to wait for
ResultReady ==
    /\ gpc = "waiting"
    /\ worker.state = "done"
    /\ LET n == Len(attempts) + 1
       IN  CASE worker.does = "ok" -> AttemptReturns("ok", <<"audio", n>>)
             [] worker.does \in {"empty", "invalid"} ->
                    AttemptReturns(worker.does, <<None>>)
             [] OTHER -> AttemptRaises(worker.does)
    /\ UNCHANGED <<text_bytes, worker, clients, requests>>
    /\ UNCHANGED <<chunkVars, jobVars, entryVars, valVars, sweepVars, persistVars, ctxVars>>

\* a timeout that does not wait for the worker (shutdown(wait=False)):
\* DeadlineExceeded leaves _make_tts_request while the request is running
Timeout_NoWait ==
    /\ gpc = "waiting"
    /\ worker.state = "running"
    /\ AttemptRaises("DeadlineExceeded")
    /\ UNCHANGED <<text_bytes, worker, clients, requests>>
    /\ UNCHANGED <<chunkVars, jobVars, entryVars, valVars, sweepVars, persistVars, ctxVars>>

\* future.result(timeout) gives up on a worker that is still running:
\* DeadlineExceeded is raised inside the with block of the executor, whose
\* __exit__ is shutdown(wait=True)
Timeout ==
    /\ gpc = "waiting"
    /\ worker.state = "running"
    /\ gpc' = "shutdown"
    /\ UNCHANGED <<text_bytes, attempts, worker, clients, requests, gresult>>
    /\ UNCHANGED <<chunkVars, jobVars, entryVars, valVars, sweepVars, persistVars, ctxVars>>

\* shutdown(wait=True) returns once the worker thread has ended; only then
\* does DeadlineExceeded leave _make_tts_request
ShutdownDone ==
    /\ gpc = "shutdown"
    /\ worker.state = "done"
    /\ AttemptRaises("DeadlineExceeded")
    /\ UNCHANGED <<text_bytes, worker, clients, requests>>
    /\ UNCHANGED <<chunkVars, jobVars, entryVars, valVars, sweepVars, persistVars, ctxVars>>

NextGateway ==
    \/ AttemptBegin
    \/ WorkerFinish
    \/ ResultReady
    \/ Timeout
    \/ ShutdownDone

SpecGateway == InitGateway /\ [][NextGateway]_vars

(***************************************************************************)
(* text_to_speech(article_id), the entry point                             *)
(***************************************************************************)
ArticleIds == {1, 2}

\* encoded sizes of the stored contents, around the routing limit
ContentSizes == {0, MaxRequestBytes - 1, MaxRequestBytes, MaxRequestBytes + 1}

\* a document of the collection: absent, or present with a content of some
\* encoded size that is blank (empty after strip()) or not
Docs ==
    {[exists |-> FALSE, bytes |-> 0, blank |-> TRUE]}
        \cup {d \in [exists : {TRUE}, bytes : ContentSizes, blank : BOOLEAN] :
                 d.bytes = 0 => d.blank}

\* the behaviours of the collaborators during one call: what synthesis
\* yields, whether ffmpeg transcodes, whether the article-audio store accepts
Envs ==
    [synth : {"audio", None, "raise"}, transcode : {"ok", "raise"},
     persist : {"ok", "fail"}]

\* calling an async def function runs none of its body: it returns a
\* coroutine object
Coroutine(fn, arg) == [kind |-> "coroutine", fn |-> fn, arg |-> arg]

\* the call with await: the document as a dict, or None when it does not
\* exist
get_article_by_id_Awaited(id) ==
    IF articles[id].exists THEN [kind |-> "dict", content |-> articles[id]]
    ELSE [kind |-> "None"]

\* db_manager.get_article_by_id is async def; line 553 calls it without await
get_article_by_id(id) == Coroutine("get_article_by_id", id)

\* db_manager.create_audio_file is async def; line 596 calls it without await
create_audio_file(id) == Coroutine("create_audio_file", id)

\* truth value of a Python object: None and False are false, an empty dict
\* is false, a coroutine object is true
Truthy(v) ==
    CASE v.kind = "None" -> FALSE
      [] v.kind = "bool" -> v.val
      [] v.kind = "dict" -> TRUE
      [] v.kind = "coroutine" -> TRUE

\* v['content'] is defined for a dict; on a coroutine object it raises
\* TypeError
Subscriptable(v) == v.kind = "dict"

\* an except clause that lets everything but ValueError through
Caught_ValueErrorOnly(kind) == kind = "ValueError"

\* except Exception (line 604) catches every exception raised in the body
Caught(kind) == TRUE

\* create_audio_file's body ran to its `return True`: the value handed back
\* is the boolean True, not a coroutine object
ReportsSuccess(v) == v.kind = "bool" /\ v.val

\* outcome of the body when an exception of the given kind is raised, after
\* the stages st
Raised(kind, nconvert, nlarge, st) ==
    [ret |-> IF Caught(kind) THEN "False" ELSE "raised",
     convert |-> nconvert, large |-> nlarge, stages |-> st]

Returned(value, nconvert, nlarge, st) ==
    [ret |-> value, convert |-> nconvert, large |-> nlarge, stages |-> st]

\* lines 580-602, once synthesis has handed back audio: transcoding, then
\* create_audio_file
transcode_and_persist(id, e, nconvert, nlarge) ==
    IF e.transcode = "raise"
    THEN Raised("CouldntDecodeError", nconvert, nlarge,
                <<"fetch", "synthesis", "transcode">>)
    ELSE LET success == create_audio_file(id)
             st == <<"fetch", "synthesis", "transcode", "persist">>
                       \o (IF ReportsSuccess(success) THEN <<"persisted">> ELSE <<>>)
         IN  IF ~Truthy(success) THEN Returned("False", nconvert, nlarge, st)
             ELSE Returned("True", nconvert, nlarge, st)

\* lines 554-606, given the value bound to article at line 553
text_to_speech_body(a, id, e) ==
    IF ~Truthy(a) THEN Returned("False", 0, 0, <<"fetch">>)
    ELSE IF ~Subscriptable(a) THEN Raised("TypeError", 0, 0, <<"fetch">>)
    ELSE IF a.content.blank THEN Returned("False", 0, 0, <<"fetch">>)
    ELSE IF a.content.bytes <= MaxRequestBytes
    THEN \* single-chunk conversion
         IF e.synth = "raise"
         THEN Raised("GoogleAPIError", 1, 0, <<"fetch", "synthesis">>)
         ELSE IF e.synth = None
         THEN Returned("False", 1, 0, <<"fetch", "synthesis">>)
         ELSE transcode_and_persist(id, e, 1, 0)
    ELSE \* multi-chunk conversion; process_large_text returns None on error
         IF e.synth # "audio"
         THEN Returned("False", 0, 1, <<"fetch", "synthesis">>)
         ELSE transcode_and_persist(id, e, 0, 1)

InitEntry ==
    /\ text = <<>>
    /\ max_bytes = 1
    /\ chunks = <<>>
    /\ cpc = "done"
    /\ JobsIdle
    /\ GatewayIdle
    /\ articles \in [ArticleIds -> Docs]
    /\ audio_files = {}
    /\ epc = "idle"
    /\ article_id = 0
    /\ article = [kind |-> "unbound"]
    /\ env = [synth |-> "audio", transcode |-> "ok", persist |-> "ok"]
    /\ convert_calls = 0
    /\ large_calls = 0
    /\ ret = "pending"
    /\ stages = <<>>
    /\ ValidatorIdle
    /\ SweepIdle
    /\ PersistIdle
    /\ ContextIdle

\* text_to_speech(id) is called and line 553 binds article
EntryCall(id) ==
    /\ epc = "idle"
    /\ article_id' = id
    /\ article' = get_article_by_id(id)
    /\ env' \in Envs
    /\ epc' = "called"
    /\ UNCHANGED <<articles, audio_files, convert_calls, large_calls, ret,
                   stages>>
    /\ UNCHANGED <<chunkVars, jobVars, gwVars, valVars, sweepVars, persistVars, ctxVars>>

\* the rest of the body runs and the call returns.  Neither async function
\* of db_manager is ever awaited, so no document is read and no blob or
\* document is written.
EntryRun ==
    /\ epc = "called"
    /\ LET out == text_to_speech_body(article, article_id, env)
       IN  /\ ret' = out.ret
           /\ convert_calls' = out.convert
           /\ large_calls' = out.large
           /\ stages' = out.stages
    /\ epc' = "done"
    /\ UNCHANGED <<articles, audio_files, article_id, article, env>>
    /\ UNCHANGED <<chunkVars, jobVars, gwVars, valVars, sweepVars, persistVars, ctxVars>>

NextEntry ==
    \/ \E id \in ArticleIds : EntryCall(id)
    \/ EntryRun

SpecEntry == InitEntry /\ [][NextEntry]_vars

\* the document of the article the call is about
Doc == articles[article_id]

(***************************************************************************)
(* SpecChunk: one call of _chunk_text on an arbitrary bounded text         *)
(***************************************************************************)
RECURSIVE TextsOfLen(_)
TextsOfLen(n) ==
    IF n = 0 THEN {<<>>}
    ELSE {Append(s, c) : s \in TextsOfLen(n - 1), c \in Alphabet}

InitChunk ==
    /\ text \in UNION {TextsOfLen(n) : n \in 0..MaxLen}
    /\ max_bytes \in 1..MaxBytes
    /\ chunks = <<>>
    /\ cpc = "call"
    /\ JobsIdle
    /\ GatewayIdle
    /\ EntryIdle
    /\ ValidatorIdle
    /\ SweepIdle
    /\ PersistIdle
    /\ ContextIdle

ChunkCall ==
    /\ cpc = "call"
    /\ chunks' = chunk_text(text, max_bytes)
    /\ cpc' = "done"
    /\ UNCHANGED <<text, max_bytes>>
    /\ UNCHANGED jobVars
    /\ UNCHANGED gwVars
    /\ UNCHANGED entryVars
    /\ UNCHANGED valVars
    /\ UNCHANGED sweepVars
    /\ UNCHANGED persistVars
    /\ UNCHANGED ctxVars

NextChunk == ChunkCall

SpecChunk == InitChunk /\ [][NextChunk]_vars

(***************************************************************************)
(* SpecValidate: one call of _validate_audio_segment.  Reading a property  *)
(* of the segment yields <<v>>, or <<>> when it raises an exception.       *)
(* Durations are in milliseconds, levels in tenths of a dB.                *)
(***************************************************************************)
\* MIN_AUDIO_DURATION = 0.1 s
MinAudioDurationMs == 100

MIN_FRAME_RATE == 16000

MAX_FRAME_RATE == 48000

Segments ==
    [duration_ms : {<<>>, <<0>>, <<99>>, <<100>>, <<101>>},
     frame_rate : {<<>>, <<15999>>, <<16000>>, <<24000>>, <<48000>>, <<48001>>},
     channels : {<<>>, <<0>>, <<1>>, <<2>>, <<3>>},
     max_dBFS : {<<>>, <<-60>>, <<0>>, <<1>>}]

\* the try block with the frame-rate bounds taken as exclusive
validate_body_ExclusiveRate(s) ==
    IF s.duration_ms = <<>> THEN "raise"
    ELSE IF s.duration_ms[1] < MinAudioDurationMs THEN "False"
    ELSE IF s.frame_rate = <<>> THEN "raise"
    ELSE IF ~(MIN_FRAME_RATE < s.frame_rate[1] /\ s.frame_rate[1] < MAX_FRAME_RATE)
    THEN "False"
    ELSE IF s.channels = <<>> THEN "raise"
    ELSE IF s.channels[1] \notin {1, 2} THEN "False"
    ELSE IF s.max_dBFS = <<>> THEN "raise"
    ELSE IF s.max_dBFS[1] > 0 THEN "False"
    ELSE "True"

\* the try block, lines 139-156: the four tests in order; "raise" when the
\* property a test reads raises
validate_body(s) ==
    IF s.duration_ms = <<>> THEN "raise"
    ELSE IF s.duration_ms[1] < MinAudioDurationMs THEN "False"
    ELSE IF s.frame_rate = <<>> THEN "raise"
    ELSE IF ~(MIN_FRAME_RATE <= s.frame_rate[1] /\ s.frame_rate[1] <= MAX_FRAME_RATE)
    THEN "False"
    ELSE IF s.channels = <<>> THEN "raise"
    ELSE IF s.channels[1] \notin {1, 2} THEN "False"
    ELSE IF s.max_dBFS = <<>> THEN "raise"
    ELSE IF s.max_dBFS[1] > 0 THEN "False"
    ELSE "True"

\* except Exception: return False (lines 158-160)
validate_audio_segment(s) ==
    IF validate_body(s) = "raise" THEN "False" ELSE validate_body(s)

InitValidate ==
    /\ text = <<>>
    /\ max_bytes = 1
    /\ chunks = <<>>
    /\ cpc = "done"
    /\ JobsIdle
    /\ GatewayIdle
    /\ EntryIdle
    /\ segment \in Segments
    /\ vpc = "call"
    /\ valid = "pending"
    /\ SweepIdle
    /\ PersistIdle
    /\ ContextIdle

ValidateCall ==
    /\ vpc = "call"
    /\ valid' = validate_audio_segment(segment)
    /\ vpc' = "done"
    /\ UNCHANGED segment
    /\ UNCHANGED <<chunkVars, jobVars, gwVars, entryVars, sweepVars, persistVars, ctxVars>>

NextValidate == ValidateCall

SpecValidate == InitValidate /\ [][NextValidate]_vars

(***************************************************************************)
(* SpecSweep: calls of _cleanup_old_temp_files, made by two instances, on  *)
(* a bucket that holds artifacts of earlier jobs.  Time is in seconds and  *)
(* advances by the hour.                                                   *)
(***************************************************************************)
Sweepers == {1, 2}

\* max_age_hours * 3600
SecondsPerHour == 3600

BlobNames == 1..MaxBlobs

\* the buckets the sweeps can find: any of the names, each blob created at
\* hour 0 or at hour 1
Buckets ==
    {{[name |-> n, time_created |-> f[n]] : n \in S} :
        S \in SUBSET BlobNames, f \in [BlobNames -> {0, SecondsPerHour}]}

RECURSIVE ListBlobs(_)
\* bucket.list_blobs(prefix): the blobs in the order of their names
ListBlobs(b) ==
    IF b = {} THEN <<>>
    ELSE LET first == CHOOSE x \in b : \A y \in b : x.name <= y.name
         IN  <<first>> \o ListBlobs(b \ {first})

\* line 409: the age of the listed blob against the window of the call
TooOld(s, b) ==
    current_time[s] - b.time_created > max_age_hours[s] * SecondsPerHour

InitSweep ==
    /\ text = <<>>
    /\ max_bytes = 1
    /\ chunks = <<>>
    /\ cpc = "done"
    /\ JobsIdle
    /\ GatewayIdle
    /\ EntryIdle
    /\ ValidatorIdle
    /\ PersistIdle
    /\ ContextIdle
    /\ bucket \in Buckets
    /\ now = SecondsPerHour
    /\ spc = [s \in Sweepers |-> "idle"]
    /\ listing = [s \in Sweepers |-> <<>>]
    /\ current_time = [s \in Sweepers |-> 0]
    /\ max_age_hours = [s \in Sweepers |-> 0]

\* an hour passes
SweepTick ==
    /\ now < (1 + MaxSweepHours) * SecondsPerHour
    /\ now' = now + SecondsPerHour
    /\ UNCHANGED <<bucket, spc, listing, current_time, max_age_hours>>
    /\ UNCHANGED <<chunkVars, jobVars, gwVars, entryVars, valVars,
                   persistVars, ctxVars>>

\* lines 406-407: the call reads the time and lists the blobs
SweepStart(s) ==
    /\ spc[s] = "idle"
    /\ \E h \in 0..MaxAgeHours :
           max_age_hours' = [max_age_hours EXCEPT ![s] = h]
    /\ current_time' = [current_time EXCEPT ![s] = now]
    /\ listing' = [listing EXCEPT ![s] = ListBlobs(bucket)]
    /\ spc' = [spc EXCEPT ![s] = "loop"]
    /\ UNCHANGED <<bucket, now>>
    /\ UNCHANGED <<chunkVars, jobVars, gwVars, entryVars, valVars,
                   persistVars, ctxVars>>

\* lines 408-411, one listed blob: it is deleted when it is older than the
\* window.  blob.delete() of a blob that is gone raises NotFound, which the
\* except clause of line 412 catches outside the loop: the call ends.
SweepBlob(s) ==
    /\ spc[s] = "loop"
    /\ listing[s] # <<>>
    /\ LET b == Head(listing[s])
       IN  IF ~TooOld(s, b)
           THEN /\ listing' = [listing EXCEPT ![s] = Tail(@)]
                /\ UNCHANGED <<bucket, spc>>
           ELSE IF \E x \in bucket : x.name = b.name
           THEN /\ bucket' = {x \in bucket : x.name # b.name}
                /\ listing' = [listing EXCEPT ![s] = Tail(@)]
                /\ UNCHANGED spc
           ELSE /\ spc' = [spc EXCEPT ![s] = "done"]
                /\ listing' = [listing EXCEPT ![s] = <<>>]
                /\ UNCHANGED bucket
    /\ UNCHANGED <<now, current_time, max_age_hours>>
    /\ UNCHANGED <<chunkVars, jobVars, gwVars, entryVars, valVars,
                   persistVars, ctxVars>>

\* the loop is over and the call returns
SweepEnd(s) ==
    /\ spc[s] = "loop"
    /\ listing[s] = <<>>
    /\ spc' = [spc EXCEPT ![s] = "done"]
    /\ UNCHANGED <<bucket, now, listing, current_time, max_age_hours>>
    /\ UNCHANGED <<chunkVars, jobVars, gwVars, entryVars, valVars,
                   persistVars, ctxVars>>

NextSweep ==
    \/ SweepTick
    \/ \E s \in Sweepers : SweepStart(s)
    \/ \E s \in Sweepers : SweepBlob(s)
    \/ \E s \in Sweepers : SweepEnd(s)

SpecSweep == InitSweep /\ [][NextSweep]_vars

(***************************************************************************)
(* SpecPersist: calls of db_manager.create_audio_file(article_id,          *)
(* m4a_audio), each awaited to its end before the next begins.  An audio   *)
(* content is a number of 1..MaxAudio; 0 stands for no blob.               *)
(***************************************************************************)
Audios == 1..MaxAudio

\* a document of articles/: absent, or present with or without a reference
\* to its audio; audio_updated_at is identified with the content the
\* reference was written for
NoDocument == [exists |-> FALSE, audio_file_path |-> FALSE, audio_updated_at |-> 0]

NewDocument == [exists |-> TRUE, audio_file_path |-> FALSE, audio_updated_at |-> 0]

InitPersist ==
    /\ text = <<>>
    /\ max_bytes = 1
    /\ chunks = <<>>
    /\ cpc = "done"
    /\ JobsIdle
    /\ GatewayIdle
    /\ EntryIdle
    /\ ValidatorIdle
    /\ SweepIdle
    /\ ContextIdle
    /\ audio_store = [id \in ArticleIds |-> 0]
    /\ documents \in [ArticleIds -> {NoDocument, NewDocument}]
    /\ ppc = "idle"
    /\ persist_id = 0
    /\ m4a_audio = 0
    /\ created = "pending"
    /\ prior = [blob |-> 0, doc |-> NoDocument]

\* create_audio_file(id, a) is called (line 221)
PersistCall(id, a) ==
    /\ ppc \in {"idle", "done"}
    /\ persist_id' = id
    /\ m4a_audio' = a
    /\ created' = "pending"
    /\ prior' = [blob |-> audio_store[id], doc |-> documents[id]]
    /\ ppc' = "upload"
    /\ UNCHANGED <<audio_store, documents>>
    /\ UNCHANGED <<chunkVars, jobVars, gwVars, entryVars, valVars, sweepVars,
                   ctxVars>>

\* lines 230-237: the audio, read from its start, replaces the blob
\* audio_files/{id}.m4a
PersistUpload ==
    /\ ppc = "upload"
    /\ audio_store' = [audio_store EXCEPT ![persist_id] = m4a_audio]
    /\ ppc' = "update"
    /\ UNCHANGED <<documents, persist_id, m4a_audio, created, prior>>
    /\ UNCHANGED <<chunkVars, jobVars, gwVars, entryVars, valVars, sweepVars,
                   ctxVars>>

\* line 237 raises (the bucket refuses the upload); lines 247-249 return
\* False
PersistUploadRaises ==
    /\ ppc = "upload"
    /\ created' = "False"
    /\ ppc' = "done"
    /\ UNCHANGED <<audio_store, documents, persist_id, m4a_audio, prior>>
    /\ UNCHANGED <<chunkVars, jobVars, gwVars, entryVars, valVars, sweepVars,
                   ctxVars>>

\* lines 240-246: update() writes the reference into the existing document,
\* and the call returns True
PersistUpdate ==
    /\ ppc = "update"
    /\ documents[persist_id].exists
    /\ documents' = [documents EXCEPT ![persist_id] =
                        [exists |-> TRUE, audio_file_path |-> TRUE,
                         audio_updated_at |-> m4a_audio]]
    /\ created' = "True"
    /\ ppc' = "done"
    /\ UNCHANGED <<audio_store, persist_id, m4a_audio, prior>>
    /\ UNCHANGED <<chunkVars, jobVars, gwVars, entryVars, valVars, sweepVars,
                   ctxVars>>

\* line 241 raises: NotFound when the document does not exist, or an error
\* of the Firestore service; lines 247-249 return False.  Nothing undoes the
\* upload of line 237.
PersistUpdateRaises ==
    /\ ppc = "update"
    /\ created' = "False"
    /\ ppc' = "done"
    /\ UNCHANGED <<audio_store, documents, persist_id, m4a_audio, prior>>
    /\ UNCHANGED <<chunkVars, jobVars, gwVars, entryVars, valVars, sweepVars,
                   ctxVars>>

NextPersist ==
    \/ \E id \in ArticleIds, a \in Audios : PersistCall(id, a)
    \/ PersistUpload
    \/ PersistUploadRaises
    \/ PersistUpdate
    \/ PersistUpdateRaises

SpecPersist == InitPersist /\ [][NextPersist]_vars

(***************************************************************************)
(* SpecContext: request handlers of main_app (tts_article and the others   *)
(* that wrap their body in `with job_context(...)`).  Quart runs them as   *)
(* coroutines of one event loop, so they share the thread and with it      *)
(* _thread_local; a handler runs without interruption from one await point *)
(* to the next.  Job ids are the article ids; NoJob stands for None and    *)
(* for the attribute being unset.                                          *)
(***************************************************************************)
Handlers == 1..MaxHandlers

NoJob == 0

\* getattr(_thread_local, 'job_id', 'No-Job') of JobContextFilter.filter;
\* the default 'No-Job' is written NoJob
Stamp == thread_job_id

\* lines 34-38: the finally clause of job_context.  `del` of a missing
\* attribute would raise AttributeError; DelFindsAttribute shows that the
\* attribute is there whenever line 38 runs.
RestoreOnExit(h) ==
    IF previous_job_id[h] # NoJob THEN previous_job_id[h] ELSE NoJob

InitContext ==
    /\ text = <<>>
    /\ max_bytes = 1
    /\ chunks = <<>>
    /\ cpc = "done"
    /\ JobsIdle
    /\ GatewayIdle
    /\ EntryIdle
    /\ ValidatorIdle
    /\ SweepIdle
    /\ PersistIdle
    /\ thread_job_id = NoJob
    /\ hpc = [h \in Handlers |-> "idle"]
    /\ handler_job_id = [h \in Handlers |-> NoJob]
    /\ previous_job_id = [h \in Handlers |-> NoJob]
    /\ awaits_left = [h \in Handlers |-> 0]
    /\ records = {}

\* a request arrives: the handler enters `with job_context(id)` (lines
\* 29-31) and runs to its first await (main_app line 91)
Enter(h, id, n) ==
    /\ hpc[h] \in {"idle", "left"}
    /\ handler_job_id' = [handler_job_id EXCEPT ![h] = id]
    /\ previous_job_id' = [previous_job_id EXCEPT ![h] = thread_job_id]
    /\ thread_job_id' = id
    /\ awaits_left' = [awaits_left EXCEPT ![h] = n - 1]
    /\ hpc' = [hpc EXCEPT ![h] = "awaiting"]
    /\ UNCHANGED records
    /\ UNCHANGED <<chunkVars, jobVars, gwVars, entryVars, valVars, sweepVars,
                   persistVars>>

\* the awaited call completes and the handler goes on to its next await
\* point, emitting a log record on the way
Resume(h) ==
    /\ hpc[h] = "awaiting"
    /\ awaits_left[h] > 0
    /\ records' = records \cup {[job_id |-> handler_job_id[h], stamped |-> Stamp]}
    /\ awaits_left' = [awaits_left EXCEPT ![h] = @ - 1]
    /\ UNCHANGED <<thread_job_id, hpc, handler_job_id, previous_job_id>>
    /\ UNCHANGED <<chunkVars, jobVars, gwVars, entryVars, valVars, sweepVars,
                   persistVars>>

\* the last awaited call completes: the handler emits a log record (main_app
\* lines 93, 100 or 106), returns, and the with block is left through the
\* finally clause
Leave(h) ==
    /\ hpc[h] = "awaiting"
    /\ awaits_left[h] = 0
    /\ records' = records \cup {[job_id |-> handler_job_id[h], stamped |-> Stamp]}
    /\ thread_job_id' = RestoreOnExit(h)
    /\ hpc' = [hpc EXCEPT ![h] = "left"]
    /\ UNCHANGED <<handler_job_id, previous_job_id, awaits_left>>
    /\ UNCHANGED <<chunkVars, jobVars, gwVars, entryVars, valVars, sweepVars,
                   persistVars>>

NextContext ==
    \/ \E h \in Handlers, id \in ArticleIds, n \in 1..MaxAwaits : Enter(h, id, n)
    \/ \E h \in Handlers : Resume(h)
    \/ \E h \in Handlers : Leave(h)

SpecContext == InitContext /\ [][NextContext]_vars

\* whenever a handler whose previous_job_id is None is about to leave, the
\* attribute exists
DelFindsAttribute ==
    \A h \in Handlers :
        (hpc[h] = "awaiting" /\ previous_job_id[h] = NoJob) => thread_job_id # NoJob

(***************************************************************************)
(* SpecLarge: process_large_text(text, chunk_size) of one instance, from   *)
(* the text to the returned audio                                          *)
(***************************************************************************)
InitLarge ==
    /\ text \in UNION {TextsOfLen(n) : n \in 0..MaxJobLen}
    /\ max_bytes \in 1..MaxJobBytes
    /\ chunks = <<>>
    /\ cpc = "call"
    /\ JobsIdle
    /\ GatewayIdle
    /\ EntryIdle
    /\ ValidatorIdle
    /\ SweepIdle
    /\ PersistIdle
    /\ ContextIdle

\* lines 303-306: the with block is entered and the text is chunked
LargeStart(j) ==
    /\ pc[j] = "idle"
    /\ cpc = "call"
    /\ temp_prefix' = [temp_prefix EXCEPT ![j] = TempPrefix(clock)]
    /\ chunks' = chunk_text(text, max_bytes)
    /\ total_chunks' = [total_chunks EXCEPT ![j] = Len(chunk_text(text, max_bytes))]
    /\ cpc' = "done"
    /\ pc' = [pc EXCEPT ![j] = "loop"]
    /\ UNCHANGED <<text, max_bytes>>
    /\ UNCHANGED <<clock, blobs, idx, failed_chunks, chunk_files, ci, outwave,
                   err, result>>
    /\ UNCHANGED gwVars
    /\ UNCHANGED entryVars
    /\ UNCHANGED valVars
    /\ UNCHANGED sweepVars
    /\ UNCHANGED persistVars
    /\ UNCHANGED ctxVars

NextLarge ==
    \/ LargeStart(1)
    \/ ProcessChunk(1)
    \/ LoopEnd(1)
    \/ CombineStep(1)
    \/ CombineClientFails(1)
    \/ CombineFinish(1)
    \/ ExitCleanup(1)
    \/ Teardown(1)

SpecLarge == InitLarge /\ [][NextLarge]_vars

(***************************************************************************)
(* C2: once process_large_text has returned, whatever the exit path, no    *)
(* blob is left in the temp bucket under the prefix of that job's          *)
(* namespace, tmp_audio_files/{temp_prefix}/.                              *)
(***************************************************************************)
C2_NoBlobAfterReturn ==
    \A j \in Jobs :
        pc[j] \in {"returned", "deleted"} => UnderPrefix(blobs, temp_prefix[j]) = {}

(***************************************************************************)
(* C3: when client.synthesize_speech never returns, _make_tts_request      *)
(* still gives control back once the timeout has expired: the caller is    *)
(* never left waiting for the hung worker to finish.                       *)
(***************************************************************************)
C3_NotBlockedByHungWorker ==
    ~(gpc = "shutdown" /\ worker.state = "running" /\ worker.does = "hang")

(***************************************************************************)
(* C4: one call of convert_text_to_speech makes at most 3 attempts; after  *)
(* two transient failures a successful third attempt's audio is returned;  *)
(* after three transient failures the third attempt's error is raised      *)
(* unchanged and there is no fourth attempt.                               *)
(***************************************************************************)
C4_RetryCeiling ==
    /\ Len(attempts) <= 3
    /\ requests <= 3
    /\ (/\ Len(attempts) = 3
        /\ attempts[1] \in Transient
        /\ attempts[2] \in Transient
        /\ attempts[3] = "ok") => (gpc = "returned" /\ gresult = <<"audio", 3>>)
    /\ (/\ Len(attempts) = 3
        /\ \A n \in 1..3 : attempts[n] \in Transient)
            => (gpc = "raised" /\ gresult = <<attempts[3], 3>>)

\* two transient failures, then the third attempt's audio was returned
C4_ThirdAttemptSucceeds ==
    /\ Len(attempts) = 3
    /\ attempts[1] \in Transient
    /\ attempts[2] \in Transient
    /\ attempts[3] = "ok"
    /\ gpc = "returned"
    /\ gresult = <<"audio", 3>>

(***************************************************************************)
(* C5: in a job of 10 chunks with ERROR_THRESHOLD = 0.2, two failures, at  *)
(* whatever positions, do not abort the job; the third failure aborts it   *)
(* with the threshold error at once, and no chunk is processed after it.   *)
(***************************************************************************)
C5_Boundary ==
    \A j \in Jobs :
        total_chunks[j] = 10 =>
            /\ failed_chunks[j] <= 3
            /\ failed_chunks[j] <= 2 => err[j] # "threshold"
            /\ failed_chunks[j] = 3 => err[j] = "threshold"

C5_NothingAfterAbort ==
    \A j \in Jobs :
        (total_chunks[j] = 10 /\ err[j] = "threshold") =>
            /\ idx'[j] = idx[j]
            /\ failed_chunks'[j] = failed_chunks[j]
            /\ chunk_files'[j] = chunk_files[j]
            /\ err'[j] = err[j]

C5_ThresholdBoundary == [](C5_Boundary) /\ [][C5_NothingAfterAbort]_vars

\* a job of 10 chunks went through all of them with exactly two failures and
\* is combining its 8 stored chunks
C5_TwoFailuresNotAborted ==
    \E j \in Jobs :
        /\ total_chunks[j] = 10
        /\ idx[j] = 10
        /\ failed_chunks[j] = 2
        /\ Len(chunk_files[j]) = 8
        /\ pc[j] = "combine"

(***************************************************************************)
(* C6: for an article with non-blank content, text_to_speech calls         *)
(* convert_text_to_speech exactly once on the whole text and never         *)
(* process_large_text when the content is at most 5000 bytes (5000         *)
(* included), and calls process_large_text and never                       *)
(* convert_text_to_speech on the whole text when it is larger.             *)
(***************************************************************************)
C6_RoutesBySize ==
    (epc = "done" /\ Doc.exists /\ ~Doc.blank) =>
        IF Doc.bytes <= 5000
        THEN convert_calls = 1 /\ large_calls = 0
        ELSE convert_calls = 0 /\ large_calls = 1

(***************************************************************************)
(* C7: for an existing article with non-blank content, when synthesis,     *)
(* validation, transcoding and persistence all succeed, text_to_speech     *)
(* returns True and the article's audio file is then in the article-audio  *)
(* store.                                                                  *)
(***************************************************************************)
C7_SuccessStoresAudio ==
    (/\ epc = "done"
     /\ Doc.exists
     /\ ~Doc.blank
     /\ env = [synth |-> "audio", transcode |-> "ok", persist |-> "ok"])
        => (ret = "True" /\ article_id \in audio_files)

(***************************************************************************)
(* C8: text_to_speech never lets an exception reach its caller; whenever   *)
(* a stage fails (article missing, blank content, synthesis, transcoding,  *)
(* persistence) it returns False.                                          *)
(***************************************************************************)
StageFails ==
    \/ ~Doc.exists
    \/ Doc.blank
    \/ env.synth # "audio"
    \/ env.transcode # "ok"
    \/ env.persist # "ok"

C8_NeverRaises ==
    epc = "done" =>
        /\ ret \in {"True", "False"}
        /\ StageFails => ret = "False"

\* a call for an article that does not exist has returned False
C8_MissingArticleReturnsFalse ==
    /\ epc = "done"
    /\ ~Doc.exists
    /\ ret = "False"

(***************************************************************************)
(* C9: no step taken for one job reads, overwrites or deletes a chunk      *)
(* artifact stored under the namespace of another job that is running.     *)
(***************************************************************************)
\* the blobs under the namespace of a running job other than j
ForeignBlobs(j) ==
    {b \in blobs : \E k \in Jobs \ {j} : Running(k) /\ b.prefix = temp_prefix[k]}

\* the blob the next CombineStep of job j downloads
NextRead(j) == BlobAt(blobs, temp_prefix[j], chunk_files[j][ci[j] + 1])

C9_StepIsolated ==
    \A j \in Jobs :
        /\ JobStep(j) => ForeignBlobs(j) \subseteq blobs'
        /\ CombineStep(j) => NextRead(j) \cap ForeignBlobs(j) = {}

C9_NamespaceIsolation == [][C9_StepIsolated]_vars

(***************************************************************************)
(* C10: two jobs that are inside temporary_directory at the same time have *)
(* different namespaces, also when both started within one clock second.   *)
(***************************************************************************)
C10_DistinctNamespaces ==
    \A j, k \in Jobs :
        (j # k /\ Running(j) /\ Running(k)) => temp_prefix[j] # temp_prefix[k]

(***************************************************************************)
(* C1: every chunk returned by _chunk_text(text, N) has an encoded size of *)
(* at most N bytes, unless the chunk is one single word that is itself     *)
(* larger than N.                                                          *)
(***************************************************************************)
OneWordOver(c, N) == Len(SplitWords(c)) = 1 /\ ByteLen(SplitWords(c)[1]) > N

C1_ChunkByteBound ==
    cpc = "done" =>
        \A i \in 1..Len(chunks) :
            ByteLen(chunks[i]) <= max_bytes \/ OneWordOver(chunks[i], max_bytes)

(***************************************************************************)
(* C11: _chunk_text returns the empty sequence for an empty or             *)
(* whitespace-only text; process_large_text never returns audio when no    *)
(* chunk succeeded, and on an empty chunk sequence it ends with the        *)
(* no-valid-audio error and returns None: no iteration of the loop, hence  *)
(* no division by the zero chunk count, takes place.                       *)
(***************************************************************************)
C11_State ==
    /\ (cpc = "done" /\ Strip(text) = <<>>) => chunks = <<>>
    /\ \A j \in Jobs :
        /\ (pc[j] \in {"returned", "deleted"} /\ chunk_files[j] = <<>>)
               => result[j] = None
        /\ (pc[j] \in {"returned", "deleted"} /\ cpc = "done" /\ chunks = <<>>)
               => (err[j] = "novalid" /\ result[j] = None /\ idx[j] = 0)

\* the quotient failed_chunks / total_chunks is only computed for a chunk
C11_NoDivisionByZero == \A j \in Jobs : ProcessChunk(j) => total_chunks[j] > 0

C11_ZeroChunks == [](C11_State) /\ [][C11_NoDivisionByZero]_vars

\* a whitespace-only text went through process_large_text, which returned
\* None with the no-valid-audio error
C11_BlankTextReturnsNone ==
    /\ text # <<>>
    /\ Strip(text) = <<>>
    /\ cpc = "done"
    /\ chunks = <<>>
    /\ pc[1] = "returned"
    /\ err[1] = "novalid"
    /\ result[1] = None

(***************************************************************************)
(* C12: the frames written to the combined waveform are in strictly        *)
(* increasing chunk-index order: the frames of chunk i come before those   *)
(* of chunk j whenever i < j, while the output is written and in the       *)
(* audio process_large_text returns.                                       *)
(***************************************************************************)
\* the chunk indices of a sequence of frames increase strictly
IndexOrdered(frames) ==
    \A a, b \in 1..Len(frames) : a < b => frames[a][2] < frames[b][2]

C12_FramesInIndexOrder ==
    \A j \in Jobs :
        /\ IndexOrdered(outwave[j].frames)
        /\ (pc[j] \in {"returned", "deleted"} /\ err[j] = "")
               => (result[j] = outwave[j].frames /\ IndexOrdered(result[j]))

\* a job with a failed chunk among the stored ones returned the frames of
\* at least four chunks
C12_SeveralChunksCombined ==
    \E j \in Jobs :
        /\ pc[j] = "returned"
        /\ err[j] = ""
        /\ failed_chunks[j] >= 1
        /\ Len(outwave[j].frames) >= 4
        /\ result[j] = outwave[j].frames

(***************************************************************************)
(* C13: the words of the chunks returned by _chunk_text, taken chunk after *)
(* chunk in returned order, are the words of the text split on whitespace: *)
(* none lost, duplicated, reordered, split or fused, periods included.     *)
(***************************************************************************)
RECURSIVE WordsOfChunks(_)
\* the words of a sequence of chunks, chunk after chunk
WordsOfChunks(cs) ==
    IF cs = <<>> THEN <<>>
    ELSE SplitWords(Head(cs)) \o WordsOfChunks(Tail(cs))

C13_WordsPreserved ==
    cpc = "done" => WordsOfChunks(chunks) = SplitWords(text)

(***************************************************************************)
(* C14: a text of 12000 bytes chunked with the bound of 5000 bytes gives   *)
(* at least 3 chunks.  The sizes are scaled down: the text is at least     *)
(* 12000/5000 times as large as max_bytes.  Only texts are looked at that   *)
(* have no word larger than max_bytes and no whitespace besides one        *)
(* separator between two words, and that two chunks of max_bytes and the   *)
(* separator between them cannot hold (12000 > 2 * 5000 + 1).              *)
(***************************************************************************)
RECURSIVE TotalLen(_)
\* the number of characters of a sequence of words
TotalLen(ws) == IF ws = <<>> THEN 0 ELSE Len(Head(ws)) + TotalLen(Tail(ws))

\* words of at most N bytes, separated by single whitespace characters
PlainText(t, N) ==
    /\ SplitWords(t) # <<>>
    /\ Len(t) = TotalLen(SplitWords(t)) + Len(SplitWords(t)) - 1
    /\ \A i \in 1..Len(SplitWords(t)) : ByteLen(SplitWords(t)[i]) <= N

C14_AtLeastThreeChunks ==
    (/\ cpc = "done"
     /\ PlainText(text, max_bytes)
     /\ ByteLen(text) * 5000 >= 12000 * max_bytes
     /\ ByteLen(text) > 2 * max_bytes + 1)
        => Len(chunks) >= 3

(***************************************************************************)
(* C15: convert_text_to_speech on a text of more than 5000 bytes raises    *)
(* the validation error (ValueError) after exactly one attempt, without    *)
(* creating a client and without a request to the remote service.          *)
(***************************************************************************)
C15_OversizeRejectedLocally ==
    text_bytes > 5000 =>
        /\ clients = 0
        /\ requests = 0
        /\ worker.state = "none"
        /\ gpc \in {"idle", "raised"}
        /\ gpc = "raised" => (attempts = <<"ValueError">> /\ gresult = <<"ValueError", 1>>)

\* a call with 5001 bytes of text has raised ValueError from its first
\* attempt
C15_OversizeRaised ==
    /\ text_bytes = 5001
    /\ gpc = "raised"
    /\ gresult = <<"ValueError", 1>>
    /\ clients = 0
    /\ requests = 0

(***************************************************************************)
(* C16: an attempt that fails with an error outside the transient set (a   *)
(* bad request, a validation error) is the last attempt of the call: the   *)
(* error is raised at once, after exactly one attempt when it is the       *)
(* first attempt that fails this way.                                      *)
(***************************************************************************)
\* the errors of the model that the retry list does not name
NonTransient == {"InvalidArgument", "ValueError"}

C16_NonTransientNotRetried ==
    \A n \in 1..Len(attempts) :
        attempts[n] \in NonTransient =>
            /\ n = Len(attempts)
            /\ gpc = "raised"
            /\ gresult = <<attempts[n], n>>
            /\ requests <= n

\* the first request was answered with a bad-request error, which was raised
\* after that one attempt
C16_BadRequestRaisedAtOnce ==
    /\ attempts = <<"InvalidArgument">>
    /\ gpc = "raised"
    /\ gresult = <<"InvalidArgument", 1>>
    /\ requests = 1

(***************************************************************************)
(* C17: _validate_audio_segment returns True exactly when all four rules   *)
(* hold (duration >= 0.1 s, 16000 <= frame rate <= 48000, 1 or 2 channels, *)
(* peak level <= 0 dBFS); on every input, one whose inspection raises      *)
(* included, it returns a boolean and raises nothing.                      *)
(***************************************************************************)
\* the four rules: each property can be read and is within its limits
RulesHold(s) ==
    /\ s.duration_ms # <<>> /\ s.duration_ms[1] >= 100
    /\ s.frame_rate # <<>> /\ s.frame_rate[1] >= 16000 /\ s.frame_rate[1] <= 48000
    /\ s.channels # <<>> /\ s.channels[1] \in {1, 2}
    /\ s.max_dBFS # <<>> /\ s.max_dBFS[1] <= 0

C17_ValidatorDecides ==
    vpc = "done" =>
        /\ valid \in {"True", "False"}
        /\ valid = "True" <=> RulesHold(segment)

\* a segment within the limits of the first three rules whose peak level
\* cannot be read was turned down with False
C17_RaisingSegmentRejected ==
    /\ vpc = "done"
    /\ segment.duration_ms = <<100>>
    /\ segment.frame_rate = <<48000>>
    /\ segment.channels = <<2>>
    /\ segment.max_dBFS = <<>>
    /\ valid = "False"

(***************************************************************************)
(* C18, as stated: after each chunk failure the failures so far are        *)
(* divided by the number of chunks gone through so far (the 1-based index  *)
(* of the chunk that just failed), and the job is aborted exactly when     *)
(* that ratio is above 0.2.                                                *)
(***************************************************************************)
C18_SeenStep ==
    \A j \in Jobs :
        failed_chunks'[j] = failed_chunks[j] + 1 =>
            (err'[j] = "threshold" <=> failed_chunks'[j] * 10 > 2 * idx'[j])

C18_RatioOverChunksSeen == [][C18_SeenStep]_vars

(***************************************************************************)
(* C18, amended: after each chunk failure the failures so far are divided  *)
(* by the total number of chunks of the job, and the job is aborted, with  *)
(* the threshold error and at once, exactly when that ratio is above 0.2.  *)
(***************************************************************************)
C18_TotalStep ==
    \A j \in Jobs :
        failed_chunks'[j] = failed_chunks[j] + 1 =>
            /\ err'[j] = "threshold" <=> failed_chunks'[j] * 10 > 2 * total_chunks[j]
            /\ err'[j] = "threshold" => pc'[j] = "exit"
            /\ err'[j] # "threshold" => pc'[j] = "loop"

C18_RatioOverTotal == [][C18_TotalStep]_vars

\* the first chunk of a job of 10 chunks failed, 1/1 of the chunks gone
\* through, and the job goes on
C18_EarlyFailureTolerated ==
    \E j \in Jobs :
        /\ total_chunks[j] = 10
        /\ idx[j] = 1
        /\ failed_chunks[j] = 1
        /\ err[j] = ""
        /\ pc[j] = "loop"

(***************************************************************************)
(* C19: whatever aborts a job (threshold exceeded, no valid chunk, combine *)
(* failure, unexpected exception), the deletion pass over the namespace of *)
(* the job runs before process_large_text returns: an abort leads to the   *)
(* exit of the with block, and the step that returns is the one that has   *)
(* deleted every blob under the prefix of the job.                         *)
(***************************************************************************)
C19_Step ==
    \A j \in Jobs :
        /\ err'[j] # err[j] => (err'[j] # "" /\ pc'[j] = "exit")
        /\ (pc[j] # "returned" /\ pc'[j] = "returned") =>
               /\ pc[j] = "exit"
               /\ blobs' = DeletePrefix(blobs, temp_prefix[j])
               /\ UnderPrefix(blobs', temp_prefix[j]) = {}
               /\ err[j] # "" => result'[j] = None

StageOrder == <<"fetch", "synthesis", "transcode", "persist", "persisted">>

\* the stage is among those the call went through
Ran(stage) == \E i \in 1..Len(stages) : stages[i] = stage

C21_Step ==
    \A j \in Jobs :
        /\ idx'[j] \in {idx[j], idx[j] + 1}
        /\ failed_chunks'[j] \in {failed_chunks[j], failed_chunks[j] + 1}
        /\ failed_chunks'[j] = failed_chunks[j] + 1 =>
               /\ idx'[j] = idx[j] + 1
               /\ chunk_files'[j] = chunk_files[j]
               /\ BlobAt(blobs', temp_prefix[j], idx'[j])
                      = BlobAt(blobs, temp_prefix[j], idx'[j])
               /\ failed_chunks'[j] * 10 <= 2 * total_chunks[j] => pc'[j] = "loop"
        /\ chunk_files'[j] # chunk_files[j] =>
               /\ idx'[j] = idx[j] + 1
               /\ chunk_files'[j] = Append(chunk_files[j], idx'[j])
               /\ failed_chunks'[j] = failed_chunks[j]
        /\ idx'[j] = idx[j] + 1 =>
               (failed_chunks'[j] = failed_chunks[j] + 1
                    \/ chunk_files'[j] # chunk_files[j])

C21_State ==
    \A j \in Jobs :
        /\ idx[j] <= total_chunks[j]
        /\ failed_chunks[j] + Len(chunk_files[j]) = idx[j]

C21_EachChunkOnce == [](C21_State) /\ [][C21_Step]_vars

\* the second chunk of a job of 10 chunks failed, the first and the third
\* are stored, and the loop goes on
C21_FailedChunkSkipped ==
    \E j \in Jobs :
        /\ total_chunks[j] = 10
        /\ idx[j] = 3
        /\ failed_chunks[j] = 1
        /\ chunk_files[j] = <<1, 3>>
        /\ pc[j] = "loop"

(***************************************************************************)
(* C22: at most one request to the remote service is in flight: a request  *)
(* is submitted only when no earlier request is still running on its       *)
(* worker thread, a timed-out one included, and convert_text_to_speech     *)
(* hands control back (for a retry, or to the loop for the next chunk)     *)
(* only when its request has ended.                                        *)
(***************************************************************************)
C22_State ==
    gpc \in {"idle", "backoff", "returned", "raised"} => worker.state # "running"

C22_Step == requests' = requests + 1 => worker.state # "running"

C22_OneRequestInFlight == [](C22_State) /\ [][C22_Step]_vars

\* the second attempt of a call timed out; its worker has ended and only
\* now does the caller leave the executor
C22_TimedOutRetryEnded ==
    /\ Len(attempts) = 1
    /\ attempts[1] \in Transient
    /\ requests = 2
    /\ gpc = "shutdown"
    /\ worker.state = "done"

(***************************************************************************)
(* C23: the parameters of the combined waveform are those of the first     *)
(* chunk whose frames are written, and they are set before any frame is    *)
(* written, also when the blob of the first listed chunk is missing and    *)
(* skipped: no frame is ever handed to an output without parameters.       *)
(***************************************************************************)
C23_ParamsOfFirstWritten ==
    \A j \in Jobs :
        /\ ~outwave[j].failed
        /\ outwave[j].frames # <<>> => outwave[j].params = outwave[j].frames[1]

(***************************************************************************)
(* C24: when synthesis and transcoding succeeded and the article-audio     *)
(* store refuses the audio, text_to_speech reports the failure and hands   *)
(* the audio it produced back to its caller.                               *)
(***************************************************************************)
\* what the call returned carries audio: it is more than a boolean
AudioHandedBack == ret \notin {"pending", "True", "False", "raised"}

C24_AudioKeptOnPersistFailure ==
    (/\ epc = "done"
     /\ Doc.exists
     /\ ~Doc.blank
     /\ env.synth = "audio"
     /\ env.transcode = "ok"
     /\ env.persist = "fail")
        => (ret # "True" /\ AudioHandedBack)

(***************************************************************************)
(* C25: a call of _cleanup_old_temp_files with window W deletes exactly    *)
(* the artifacts older than W: when it returns, no artifact that was older *)
(* than W when the call read the time is left, and no artifact of age at   *)
(* most W has been deleted.                                                *)
(***************************************************************************)
C25_Step ==
    \A s \in Sweepers :
        /\ (spc[s] = "loop" /\ spc'[s] = "done") =>
               \A b \in bucket' : ~TooOld(s, b)
        /\ SweepBlob(s) => \A b \in bucket \ bucket' : TooOld(s, b)

C25_SweepDeletesExactlyOld == [][C25_Step]_vars

(***************************************************************************)
(* C26: whenever process_large_text returns audio, the failed chunks of    *)
(* the job are at most 0.2 of its chunks and at least one chunk was        *)
(* stored: a job that lost more than 20% of its chunks never succeeds.     *)
(***************************************************************************)
C26_SuccessWithinThreshold ==
    \A j \in Jobs :
        (pc[j] \in {"returned", "deleted"} /\ result[j] # None) =>
            /\ err[j] = ""
            /\ failed_chunks[j] * 10 <= 2 * total_chunks[j]
            /\ Len(chunk_files[j]) >= 1
            /\ idx[j] = total_chunks[j]

\* a job of 10 chunks that lost exactly two of them returned audio
C26_SuccessAtTheLimit ==
    \E j \in Jobs :
        /\ pc[j] = "returned"
        /\ total_chunks[j] = 10
        /\ failed_chunks[j] = 2
        /\ err[j] = ""
        /\ result[j] # None
        /\ result[j] = outwave[j].frames

(***************************************************************************)
(* C27: the audio _combine_audio_files returns for a job holds the frames  *)
(* of every chunk recorded in chunk_files, one set of frames per entry and *)
(* in that order: no stored chunk is left out, also not when its blob was  *)
(* removed before the combine by the cleanup of another job.               *)
(***************************************************************************)
C27_NoStoredChunkOmitted ==
    \A j \in Jobs :
        (pc[j] \in {"exit", "returned", "deleted"} /\ err[j] = ""
             /\ result[j] # "pending" /\ result[j] # None) =>
            /\ Len(result[j]) = Len(chunk_files[j])
            /\ \A n \in 1..Len(chunk_files[j]) : result[j][n][2] = chunk_files[j][n]

(***************************************************************************)
(* C28: every chunk returned by _chunk_text has at least one character     *)
(* that is not whitespace, whatever the text and max_bytes >= 1.           *)
(***************************************************************************)
C28_NoBlankChunk ==
    cpc = "done" => \A i \in 1..Len(chunks) : Strip(chunks[i]) # <<>>

\* C29: when create_audio_file has returned False for an article, the
\* blob audio_files/{id}.m4a and the document of that article are what they
\* were when the call began
C29_FailedPersistLeavesPrior ==
    (ppc = "done" /\ created = "False")
        => /\ audio_store[persist_id] = prior.blob
           /\ documents[persist_id] = prior.doc

\* C30: every log record emitted inside a handler's job_context block
\* carries that handler's job id, and once all handlers have left their
\* blocks the thread-local job id is unset
C30_RecordsCarryOwnJobId ==
    /\ \A r \in records : r.stamped = r.job_id
    /\ (\A h \in Handlers : hpc[h] # "awaiting") => thread_job_id = NoJob

====
